---- MODULE Spec2Model ----
(***************************************************************************)
(* Model of the memoist identity service: the account directory            *)
(* (backend/app/api/v1/auth.py), the token codec and the credential hasher *)
(* (backend/app/core/security.py), the users table                         *)
(* (backend/app/models/auth.py) and the mapping of uncaught exceptions to  *)
(* responses (backend/app/api/main.py).                                    *)
(*                                                                         *)
(* Every request handler is a coroutine.  Its code between two awaited     *)
(* database calls runs without interruption, so a handler is modelled as   *)
(* one action per awaited database round trip; requests of different       *)
(* processes interleave at these points.  Time is counted in minutes.      *)
(***************************************************************************)
EXTENDS Integers, FiniteSets, Sequences, TLC

(* ------------------------------ bounds -------------------------------- *)
\* number of requests that can be in flight at once
NProcs == 2
\* number of identifiers uuid4 hands out in one behaviour
MaxIds == 2
\* number of clock advances in one behaviour
MaxTicks == 2
\* number of accounts in the table that is listed
ListAccounts == 4

(* ------------------------- program constants -------------------------- *)
ACCESS_TOKEN_EXPIRE_MINUTES == 30
REFRESH_TOKEN_EXPIRE_DAYS == 7
MinutesPerDay == 1440
BcryptLimit == 72
SECRET_KEY == "server-secret"

Procs == 1..NProcs
Ids == 1..MaxIds
Emails == {"a@x.com", "b@x.com"}
Usernames == {"alice", "bob"}
FullNames == {"Alice A."}
Passwords == {"pw12345", "wrong"}

\* Python's None for a string-valued and for a time-valued attribute
NoneS == "<None>"
NoneT == -1
Nil == [nil |-> TRUE]

(* ------------------------------ strings ------------------------------- *)
\* A string that is read as an identifier is one of: the canonical text of
\* the UUID numbered n (fmt "hex"), another spelling of the same UUID that
\* the UUID constructor accepts (fmt "urn"), the empty string (fmt "text",
\* n = 0), any other text (fmt "text", n > 0), or None.
Str(fmt, n) == [fmt |-> fmt, n |-> n]
NoneStr == Str("none", 0)
EmptyStr == Str("text", 0)
JunkStr == Str("text", 1)

\* str(u.id)
str(id) == Str("hex", id)

\* UUID(s) succeeds on the spellings of a UUID and raises ValueError on
\* everything else (None raises TypeError)
UUIDParses(s) == s.fmt \in {"hex", "urn"}
UUID(s) == s.n

\* Python truthiness of an optional string: "not sub"
Falsy(s) == s = NoneStr \/ s = EmptyStr

(* --------------------------- users table ------------------------------ *)
\* scalar_one_or_none(): None for no row, the row for one row, and
\* MultipleResultsFound for more than one
ScalarRaises(rows) == Cardinality(rows) > 1
ScalarIsNone(rows) == rows = {}
ScalarOne(rows) == CHOOSE r \in rows : TRUE

ById(rows, uid) == {r \in rows : r.id = uid}

\* unique=True on email and on username: the statement that would leave two
\* rows with the same email or the same username raises IntegrityError.
\* "row" is the row as the statement would leave it.
\* mutant: a users table created without the two unique constraints
UniqueViolated_NoConstraint(rows, row) == FALSE

UniqueViolated(rows, row) ==
    \E r \in rows : r.id # row.id /\ (r.email = row.email \/ r.username = row.username)

(* --------------------------- credential hasher ------------------------ *)
\* passwords longer than the limit of bcrypt: two that agree on their first
\* 72 bytes, and the password that is these 72 bytes
LongPasswords == {"long-73-bytes-a", "long-73-bytes-b"}
Prefix72(pw) == IF pw \in LongPasswords THEN "long-72-bytes" ELSE pw

\* len(password.encode("utf-8"))
Len8(pw) == IF pw \in LongPasswords THEN 73 ELSE IF pw = "long-72-bytes" THEN 72 ELSE 7

\* what is fed to a scheme: the password itself, or
\* hashlib.sha256(password.encode("utf-8")).hexdigest(), 64 characters
Raw(pw) == <<"raw", pw>>
Sha256Hex(pw) == <<"sha256hex", pw>>
InputLen(m) == IF m[1] = "raw" THEN Len8(m[2]) ELSE 64

\* CryptContext(schemes=[...]): the first scheme is the one new hashes get
Schemes == <<"pbkdf2_sha256", "bcrypt_sha256", "bcrypt">>
\* mutant: a context that lists bcrypt first
DefaultScheme_Bcrypt == Schemes[3]

DefaultScheme == Schemes[1]

\* what the installed bcrypt library does with more than 72 bytes: it uses
\* the first 72, or it raises ValueError ("... longer than 72 bytes ...")
Backends == {"truncates", "raises"}
AnyBackend == CHOOSE b \in Backends : TRUE

\* the hash of a scheme, without the salt: bcrypt reads 72 bytes of its input,
\* pbkdf2_sha256 and bcrypt_sha256 read all of it
Digest(scheme, m) ==
    IF scheme = "bcrypt" /\ InputLen(m) > BcryptLimit
    THEN <<scheme, Raw(Prefix72(m[2]))>>
    ELSE <<scheme, m>>

\* pwd_context.hash under a given first scheme raises ValueError
HashRaises(scheme, backend, m) ==
    scheme = "bcrypt" /\ backend = "raises" /\ InputLen(m) > BcryptLimit

\* pwd_context.hash: the stored string names its scheme
ContextHash(scheme, m) == [scheme |-> scheme, secret |-> Digest(scheme, m)]

\* get_password_hash under a context whose first scheme is "scheme"
HashUnder(scheme, backend, password) ==
    IF HashRaises(scheme, backend, Raw(password))
    THEN ContextHash(scheme, Sha256Hex(password))
    ELSE ContextHash(scheme, Raw(password))

\* mutant: the password is stored as it was submitted
get_password_hash_Plain(password) == [scheme |-> "plaintext", secret |-> Raw(password)]

\* get_password_hash: the first scheme of the context is not bcrypt, so the
\* result is the same with either library
get_password_hash(password) == HashUnder(DefaultScheme, AnyBackend, password)

\* pwd_context.verify: the scheme is read from the stored string
ContextVerify(m, hashed_password) ==
    hashed_password.secret = Digest(hashed_password.scheme, m)

\* mutant: a verification that accepts every password
verify_password_AcceptsAll(plain_password, hashed_password) == TRUE

\* pwd_context.identify + pwd_context.verify
verify_password(plain_password, hashed_password) ==
    IF hashed_password.scheme = "bcrypt" /\ Len8(plain_password) > BcryptLimit
    THEN ContextVerify(Sha256Hex(plain_password), hashed_password)
    ELSE ContextVerify(Raw(plain_password), hashed_password)

(* ------------------------------ token codec --------------------------- *)
\* a claims mapping is a function from claim names to values
NoClaims == [k \in {} |-> 0]
Claims1(k, v) == [x \in {k} |-> v]
\* dict.update
Update(d, e) == [k \in DOMAIN d \cup DOMAIN e |-> IF k \in DOMAIN e THEN e[k] ELSE d[k]]
\* dict.get
Get(d, k, dflt) == IF k \in DOMAIN d THEN d[k] ELSE dflt

\* HS256 signature of a payload under a key
Sign(key, payload) == [key |-> key, over |-> payload]

\* jwt.encode
JwtEncode(payload, key) == [wf |-> TRUE, payload |-> payload, sig |-> Sign(key, payload)]

\* a string that is no JWS at all
GarbageToken == [wf |-> FALSE, payload |-> NoClaims, sig |-> Sign("", NoClaims)]
\* a token whose signature segment was altered
Tamper(token) == [token EXCEPT !.sig = Sign("altered", token.payload)]

\* "expires_minutes or settings.ACCESS_TOKEN_EXPIRE_MINUTES": None and 0 are
\* both falsy
OrDefault(v, dflt) == IF v = NoneT \/ v = 0 THEN dflt ELSE v

\* extra is None or empty: "if extra:" is false
WithExtra(to_encode, extra) ==
    IF DOMAIN extra # {} THEN Update(to_encode, extra) ELSE to_encode

create_access_token(subject, expires_minutes, extra, now) ==
    LET expire_delta == OrDefault(expires_minutes, ACCESS_TOKEN_EXPIRE_MINUTES)
        to_encode == [sub |-> subject, exp |-> now + expire_delta]
    IN  JwtEncode(WithExtra(to_encode, extra), SECRET_KEY)

create_refresh_token(subject, expires_days, extra, now) ==
    LET expire_delta == OrDefault(expires_days, REFRESH_TOKEN_EXPIRE_DAYS) * MinutesPerDay
        to_encode == [sub |-> subject, type |-> "refresh", exp |-> now + expire_delta]
    IN  JwtEncode(WithExtra(to_encode, extra), SECRET_KEY)

\* mutant: an expiry check that grants a leeway of one minute
DecodeRaises_Leeway(token, now) ==
    \/ ~token.wf
    \/ token.sig # Sign(SECRET_KEY, token.payload)
    \/ ("exp" \in DOMAIN token.payload /\ token.payload["exp"] < now - 1)

\* jwt.decode raises JWTError for a malformed token or a bad signature and
\* ExpiredSignatureError (a JWTError) when exp < now; the leeway is 0
DecodeRaises(token, now) ==
    \/ ~token.wf
    \/ token.sig # Sign(SECRET_KEY, token.payload)
    \/ ("exp" \in DOMAIN token.payload /\ token.payload["exp"] < now)

\* the claims decode_token returns when it does not raise
decode_token(token) == token.payload

(* ------------------------------- state -------------------------------- *)
VARIABLES
    users,      \* the rows of the users table
    nextId,     \* the next identifier uuid4 returns
    clock,      \* the current time, in minutes
    ticks,      \* how many times the clock has advanced
    pr,         \* per process: the request it runs and the response it got
    held        \* the token a client presents next: none or one

vars == <<users, nextId, clock, ticks, pr, held>>

Idle == [op |-> "none", pc |-> "idle", arg |-> Nil, loc |-> Nil,
         status |-> 0, detail |-> "", exc |-> "", body |-> Nil]

Init ==
    /\ users = {}
    /\ nextId = 1
    /\ clock = 0
    /\ ticks = 0
    /\ pr = [p \in Procs |-> Idle]
    /\ held = {}

\* a process takes a new request when it runs none
Free(p) == pr[p].pc = "idle"

Begin(op, arg, pc, loc) ==
    [op |-> op, pc |-> pc, arg |-> arg, loc |-> loc,
     status |-> 0, detail |-> "", exc |-> "", body |-> Nil]

Finish(q, status, detail, exc, body) ==
    [q EXCEPT !.pc = "done", !.loc = Nil, !.status = status,
              !.detail = detail, !.exc = exc, !.body = body]

\* raise HTTPException(status_code, detail)
HTTPException(q, status_code, detail) == Finish(q, status_code, detail, "HTTPException", Nil)

\* an exception no handler of the route catches reaches the handler
\* registered for Exception
general_exception_handler(q, exc) ==
    Finish(q, 500, "An unexpected error occurred", exc, Nil)

\* a returned value: status 200
Return(q, body) == Finish(q, 200, "", "", body)

Set(p, q) == pr' = [pr EXCEPT ![p] = q]

to_user_response(u) ==
    [id |-> str(u.id), email |-> u.email, username |-> u.username,
     full_name |-> u.full_name, is_active |-> u.is_active,
     created_at |-> u.created_at, updated_at |-> u.updated_at,
     last_login |-> u.last_login]

\* the columns of a loaded object the session writes back: those whose
\* value differs from the loaded one
Columns == {"email", "username", "full_name", "is_active", "password_hash",
            "created_at", "updated_at", "last_login"}
Dirty(old, new) == {c \in Columns : new[c] # old[c]}
\* UPDATE users SET <dirty columns> WHERE id = new.id, applied to the row
\* the table holds now
Written(cur, old, new) ==
    [c \in DOMAIN cur |-> IF c \in Dirty(old, new) THEN new[c] ELSE cur[c]]

\* the requests that are about to insert: a Register that would need more
\* identifiers than one behaviour hands out is not taken
Inserting == {p \in Procs : pr[p].pc = "create_commit"}

(* ------------------------------ Register ------------------------------ *)
\* create_user up to "await db.commit()"
create_user(p, email, username, full_name, is_active, password) ==
    /\ Free(p)
    /\ LET arg == [email |-> email, username |-> username, full_name |-> full_name,
                   is_active |-> is_active, password |-> password]
           existing == {r \in users : r.email = email \/ r.username = username}
           q == Begin("create_user", arg, "run", Nil)
           u == [id |-> 0, email |-> email, username |-> username,
                 full_name |-> full_name, is_active |-> TRUE,
                 password_hash |-> get_password_hash(password),
                 created_at |-> clock, updated_at |-> clock, last_login |-> NoneT]
       IN  IF ScalarRaises(existing)
           THEN Set(p, general_exception_handler(q, "MultipleResultsFound"))
           ELSE IF ~ScalarIsNone(existing)
           THEN Set(p, HTTPException(q, 409, "User already exists"))
           ELSE /\ nextId + Cardinality(Inserting) <= MaxIds
                /\ Set(p, [q EXCEPT !.pc = "create_commit", !.loc = u])
    /\ UNCHANGED <<users, nextId, clock, ticks, held>>

\* "await db.commit()": the INSERT, with the identifier uuid4 generates
create_user_commit(p) ==
    /\ pr[p].pc = "create_commit"
    /\ LET u == [pr[p].loc EXCEPT !.id = nextId]
       IN  IF UniqueViolated(users, u)
           THEN /\ Set(p, general_exception_handler(pr[p], "IntegrityError"))
                /\ UNCHANGED <<users, nextId>>
           ELSE /\ users' = users \cup {u}
                /\ nextId' = nextId + 1
                /\ Set(p, [pr[p] EXCEPT !.pc = "create_refresh", !.loc = [id |-> u.id]])
    /\ UNCHANGED <<clock, ticks, held>>

\* "await db.refresh(u)" and the return
create_user_refresh(p) ==
    /\ pr[p].pc = "create_refresh"
    /\ LET rows == ById(users, pr[p].loc.id)
       IN  IF rows = {}
           THEN Set(p, general_exception_handler(pr[p], "InvalidRequestError"))
           ELSE Set(p, Return(pr[p], to_user_response(ScalarOne(rows))))
    /\ UNCHANGED <<users, nextId, clock, ticks, held>>

(* -------------------------------- Login ------------------------------- *)
\* login_user up to "await db.commit()"
login_user(p, username, password) ==
    /\ Free(p)
    /\ LET arg == [username |-> username, password |-> password]
           rows == {r \in users : r.username = username}
           q == Begin("login_user", arg, "run", Nil)
       IN  IF ScalarRaises(rows)
           THEN Set(p, general_exception_handler(q, "MultipleResultsFound"))
           ELSE IF ScalarIsNone(rows)
                   \/ ~verify_password(password, ScalarOne(rows).password_hash)
           THEN Set(p, HTTPException(q, 401, "Incorrect username or password"))
           ELSE LET u == ScalarOne(rows)
                IN  Set(p, [q EXCEPT !.pc = "login_commit",
                                     !.loc = [old |-> u,
                                              new |-> [u EXCEPT !.last_login = clock]]])
    /\ UNCHANGED <<users, nextId, clock, ticks, held>>

\* the token pair login_user and refresh_token build for the loaded account
IssueSessionPair(u, now) ==
    [access_token |-> create_access_token(str(u.id), NoneT,
                                          Claims1("username", u.username), now),
     refresh_token |-> create_refresh_token(str(u.id), NoneT,
                                            Claims1("username", u.username), now),
     token_type |-> "bearer"]

\* a client holds the one token it presents next: when it is sent a pair it
\* goes on with the token it has or, if it keeps the pair, with one of the two
Keeps(pair, keep) ==
    \/ held' = held
    \/ keep /\ \E t \in {pair.access_token, pair.refresh_token} : held' = {t}

\* "await db.commit()" of login_user and the rest of the handler
login_user_commit(p, keep) ==
    /\ pr[p].pc = "login_commit"
    /\ LET old == pr[p].loc.old
           new == pr[p].loc.new
           rows == ById(users, old.id)
           pair == IssueSessionPair(new, clock)
       IN  IF Dirty(old, new) # {} /\ rows = {}
           THEN /\ Set(p, general_exception_handler(pr[p], "StaleDataError"))
                /\ UNCHANGED <<users, held>>
           ELSE /\ users' = IF Dirty(old, new) = {} THEN users
                            ELSE (users \ rows) \cup {Written(ScalarOne(rows), old, new)}
                /\ Keeps(pair, keep)
                /\ Set(p, Return(pr[p], pair))
    /\ UNCHANGED <<nextId, clock, ticks>>

(* ------------------------------- Refresh ------------------------------ *)
\* mutant: the account is looked up but its active flag is not read
Unusable_ActiveIgnored(rows) == ScalarIsNone(rows)

\* "not u or not u.is_active"
Unusable(rows) == ScalarIsNone(rows) \/ ~ScalarOne(rows).is_active

\* mutant: a refresh that records the use of the token in the row of the
\* account (last_login) before it issues the pair
refresh_token_Stamps(p, token, keep) ==
    /\ Free(p)
    /\ LET q == Begin("refresh_token", [refresh_token |-> token], "run", Nil)
           payload == decode_token(token)
           sub == Get(payload, "sub", NoneStr)
           rows == ById(users, UUID(sub))
       IN  IF DecodeRaises(token, clock) \/ Get(payload, "type", NoneS) # "refresh"
              \/ Falsy(sub) \/ ~UUIDParses(sub) \/ Unusable(rows)
              \/ \E r \in rows : r.last_login = payload["exp"]
           THEN /\ Set(p, HTTPException(q, 401, "Invalid refresh token"))
                /\ UNCHANGED <<users, held>>
           ELSE LET u == [ScalarOne(rows) EXCEPT !.last_login = payload["exp"]]
                    pair == IssueSessionPair(u, clock)
                IN  /\ users' = (users \ rows) \cup {u}
                    /\ Keeps(pair, keep)
                    /\ Set(p, Return(q, pair))
    /\ UNCHANGED <<nextId, clock, ticks>>

\* refresh_token: one database round trip
refresh_token(p, token, keep) ==
    /\ Free(p)
    /\ LET q == Begin("refresh_token", [refresh_token |-> token], "run", Nil)
           payload == decode_token(token)
           sub == Get(payload, "sub", NoneStr)
           rows == ById(users, UUID(sub))
       IN  IF DecodeRaises(token, clock)
           THEN Set(p, general_exception_handler(q, "JWTError")) /\ held' = held
           ELSE IF Get(payload, "type", NoneS) # "refresh"
           THEN Set(p, HTTPException(q, 400, "Invalid refresh token")) /\ held' = held
           ELSE IF Falsy(sub)
           THEN Set(p, HTTPException(q, 401, "Invalid token")) /\ held' = held
           ELSE IF ~UUIDParses(sub)
           THEN Set(p, general_exception_handler(q, "ValueError")) /\ held' = held
           ELSE IF Unusable(rows)
           THEN Set(p, HTTPException(q, 401, "User not found")) /\ held' = held
           ELSE LET pair == IssueSessionPair(ScalarOne(rows), clock)
                IN  /\ Keeps(pair, keep)
                    /\ Set(p, Return(q, pair))
    /\ UNCHANGED <<users, nextId, clock, ticks>>

(* -------------------------- authorization guard ----------------------- *)
\* mutant: the account is looked up by the username claim of the token
GuardTry_ByUsername(token, rows, now) ==
    LET payload == decode_token(token)
        sub == Get(payload, "sub", NoneStr)
        found == {r \in rows : r.username = Get(payload, "username", NoneS)}
    IN  IF DecodeRaises(token, now) THEN [ok |-> FALSE, exc |-> "JWTError", detail |-> ""]
        ELSE IF Falsy(sub)
        THEN [ok |-> FALSE, exc |-> "HTTPException", detail |-> "Invalid token"]
        ELSE IF ~UUIDParses(sub) THEN [ok |-> FALSE, exc |-> "ValueError", detail |-> ""]
        ELSE IF ScalarIsNone(found)
        THEN [ok |-> FALSE, exc |-> "HTTPException", detail |-> "User not found"]
        ELSE [ok |-> TRUE, u |-> ScalarOne(found)]

\* mutant: a guard that turns down a token whose kind claim is "refresh"
GuardTry_AccessOnly(token, rows, now) ==
    LET payload == decode_token(token)
        sub == Get(payload, "sub", NoneStr)
        found == ById(rows, UUID(sub))
    IN  IF DecodeRaises(token, now) THEN [ok |-> FALSE, exc |-> "JWTError", detail |-> ""]
        ELSE IF Falsy(sub) \/ Get(payload, "type", NoneS) = "refresh"
        THEN [ok |-> FALSE, exc |-> "HTTPException", detail |-> "Invalid token"]
        ELSE IF ~UUIDParses(sub) THEN [ok |-> FALSE, exc |-> "ValueError", detail |-> ""]
        ELSE IF ScalarIsNone(found)
        THEN [ok |-> FALSE, exc |-> "HTTPException", detail |-> "User not found"]
        ELSE [ok |-> TRUE, u |-> ScalarOne(found)]

\* mutant: a guard that turns down the token of an account that is not active
GuardTry_ActiveOnly(token, rows, now) ==
    LET payload == decode_token(token)
        sub == Get(payload, "sub", NoneStr)
        found == ById(rows, UUID(sub))
    IN  IF DecodeRaises(token, now) THEN [ok |-> FALSE, exc |-> "JWTError", detail |-> ""]
        ELSE IF Falsy(sub)
        THEN [ok |-> FALSE, exc |-> "HTTPException", detail |-> "Invalid token"]
        ELSE IF ~UUIDParses(sub) THEN [ok |-> FALSE, exc |-> "ValueError", detail |-> ""]
        ELSE IF Unusable(found)
        THEN [ok |-> FALSE, exc |-> "HTTPException", detail |-> "User not found"]
        ELSE [ok |-> TRUE, u |-> ScalarOne(found)]

\* the outcome of the try block of get_current_user: the account, or the
\* exception raised inside the block
GuardTry(token, rows, now) ==
    LET payload == decode_token(token)
        sub == Get(payload, "sub", NoneStr)
        found == ById(rows, UUID(sub))
    IN  IF DecodeRaises(token, now) THEN [ok |-> FALSE, exc |-> "JWTError", detail |-> ""]
        ELSE IF Falsy(sub)
        THEN [ok |-> FALSE, exc |-> "HTTPException", detail |-> "Invalid token"]
        ELSE IF ~UUIDParses(sub) THEN [ok |-> FALSE, exc |-> "ValueError", detail |-> ""]
        ELSE IF ScalarIsNone(found)
        THEN [ok |-> FALSE, exc |-> "HTTPException", detail |-> "User not found"]
        ELSE [ok |-> TRUE, u |-> ScalarOne(found)]

\* mutant: an "except HTTPException: raise" ahead of the catch-all
GuardExcept_Reraise(q, try) ==
    IF try.exc = "HTTPException" THEN HTTPException(q, 401, try.detail)
    ELSE HTTPException(q, 401, "Invalid credentials")

\* "except Exception": HTTPException is an Exception, so the two raised in
\* the try block are replaced like every other one
GuardExcept(q, try) == HTTPException(q, 401, "Invalid credentials")

get_current_user(p, token) ==
    /\ Free(p)
    /\ LET q == Begin("get_current_user", [token |-> token], "run", Nil)
           try == GuardTry(token, users, clock)
       IN  IF try.ok THEN Set(p, Return(q, try.u)) ELSE Set(p, GuardExcept(q, try))
    /\ UNCHANGED <<users, nextId, clock, ticks, held>>

(* --------------------------------- Get -------------------------------- *)
get_user(p, user_id) ==
    /\ Free(p)
    /\ LET q == Begin("get_user", [user_id |-> user_id], "run", Nil)
           rows == ById(users, UUID(user_id))
       IN  IF ~UUIDParses(user_id)
           THEN Set(p, HTTPException(q, 400, "Invalid user ID format"))
           ELSE IF ScalarIsNone(rows)
           THEN Set(p, HTTPException(q, 404, "User not found"))
           ELSE Set(p, Return(q, to_user_response(ScalarOne(rows))))
    /\ UNCHANGED <<users, nextId, clock, ticks, held>>

(* -------------------------------- Update ------------------------------ *)
\* mutant: an update that replaces the profile, so that a display name that
\* is not supplied is cleared
Applied_Replaces(u, update_dict, now) ==
    [c \in DOMAIN u |->
        IF c \in DOMAIN update_dict THEN update_dict[c]
        ELSE IF c = "updated_at" THEN now
        ELSE IF c = "full_name" THEN NoneS
        ELSE u[c]]

\* the assignments of update_user: only the supplied fields, and updated_at
Applied(u, update_dict, now) ==
    [c \in DOMAIN u |->
        IF c \in DOMAIN update_dict THEN update_dict[c]
        ELSE IF c = "updated_at" THEN now
        ELSE u[c]]

\* conflict_q: every where() adds a condition to the same query
ConflictRows(rows, uid, update_dict) ==
    {r \in rows :
        /\ r.id # uid
        /\ ("email" \in DOMAIN update_dict => r.email = update_dict["email"])
        /\ ("username" \in DOMAIN update_dict => r.username = update_dict["username"])}

\* update_user up to its second awaited query
update_user(p, user_id, update_dict) ==
    /\ Free(p)
    /\ LET q == Begin("update_user", [user_id |-> user_id, update_data |-> update_dict],
                      "run", Nil)
           rows == ById(users, UUID(user_id))
           u == ScalarOne(rows)
       IN  IF ~UUIDParses(user_id)
           THEN Set(p, HTTPException(q, 400, "Invalid user ID format"))
           ELSE IF ScalarIsNone(rows)
           THEN Set(p, HTTPException(q, 404, "User not found"))
           ELSE IF "email" \in DOMAIN update_dict \/ "username" \in DOMAIN update_dict
           THEN Set(p, [q EXCEPT !.pc = "update_check", !.loc = [old |-> u]])
           ELSE Set(p, [q EXCEPT !.pc = "update_commit",
                                 !.loc = [old |-> u, new |-> Applied(u, update_dict, clock)]])
    /\ UNCHANGED <<users, nextId, clock, ticks, held>>

\* the conflict query of update_user and the assignments after it
update_user_check(p) ==
    /\ pr[p].pc = "update_check"
    /\ LET u == pr[p].loc.old
           update_dict == pr[p].arg.update_data
           conflict == ConflictRows(users, u.id, update_dict)
       IN  IF ScalarRaises(conflict)
           THEN Set(p, general_exception_handler(pr[p], "MultipleResultsFound"))
           ELSE IF ~ScalarIsNone(conflict)
           THEN Set(p, HTTPException(pr[p], 409, "Email or username already exists"))
           ELSE Set(p, [pr[p] EXCEPT !.pc = "update_commit",
                                     !.loc = [old |-> u,
                                              new |-> Applied(u, update_dict, clock)]])
    /\ UNCHANGED <<users, nextId, clock, ticks, held>>

\* "await db.commit()" of update_user: the UPDATE of the changed columns
update_user_commit(p) ==
    /\ pr[p].pc = "update_commit"
    /\ LET old == pr[p].loc.old
           new == pr[p].loc.new
           rows == ById(users, old.id)
           row == Written(ScalarOne(rows), old, new)
       IN  IF Dirty(old, new) = {}
           THEN /\ Set(p, [pr[p] EXCEPT !.pc = "update_refresh", !.loc = [id |-> old.id]])
                /\ UNCHANGED users
           ELSE IF rows = {}
           THEN /\ Set(p, general_exception_handler(pr[p], "StaleDataError"))
                /\ UNCHANGED users
           ELSE IF UniqueViolated(users, row)
           THEN /\ Set(p, general_exception_handler(pr[p], "IntegrityError"))
                /\ UNCHANGED users
           ELSE /\ users' = (users \ rows) \cup {row}
                /\ Set(p, [pr[p] EXCEPT !.pc = "update_refresh", !.loc = [id |-> old.id]])
    /\ UNCHANGED <<nextId, clock, ticks, held>>

\* "await db.refresh(u)" of update_user and the return
update_user_refresh(p) ==
    /\ pr[p].pc = "update_refresh"
    /\ LET rows == ById(users, pr[p].loc.id)
       IN  IF rows = {}
           THEN Set(p, general_exception_handler(pr[p], "InvalidRequestError"))
           ELSE Set(p, Return(pr[p], to_user_response(ScalarOne(rows))))
    /\ UNCHANGED <<users, nextId, clock, ticks, held>>

(* -------------------------------- Delete ------------------------------ *)
delete_user(p, user_id) ==
    /\ Free(p)
    /\ LET q == Begin("delete_user", [user_id |-> user_id], "run", Nil)
           rows == ById(users, UUID(user_id))
       IN  IF ~UUIDParses(user_id)
           THEN Set(p, HTTPException(q, 400, "Invalid user ID format"))
           ELSE IF ScalarIsNone(rows)
           THEN Set(p, HTTPException(q, 404, "User not found"))
           ELSE Set(p, [q EXCEPT !.pc = "delete_commit", !.loc = [id |-> UUID(user_id)]])
    /\ UNCHANGED <<users, nextId, clock, ticks, held>>

\* mutant: a delete that keeps the row and marks it inactive
delete_user_commit_Tombstone(p) ==
    /\ pr[p].pc = "delete_commit"
    /\ users' = {IF r.id = pr[p].loc.id THEN [r EXCEPT !.is_active = FALSE] ELSE r : r \in users}
    /\ Set(p, Return(pr[p], [message |-> "User deleted successfully"]))
    /\ UNCHANGED <<nextId, clock, ticks, held>>

\* "await db.commit()" of delete_user: DELETE ... WHERE id = :id; a row that
\* is gone already only draws a warning
delete_user_commit(p) ==
    /\ pr[p].pc = "delete_commit"
    /\ users' = users \ ById(users, pr[p].loc.id)
    /\ Set(p, Return(pr[p], [message |-> "User deleted successfully"]))
    /\ UNCHANGED <<nextId, clock, ticks, held>>

(* --------------------------------- List ------------------------------- *)
\* the query parameter is_active: None, or a boolean
NoFilter == [given |-> FALSE]
Filter(b) == [given |-> TRUE, value |-> b]
ActiveFilters == {NoFilter} \cup {Filter(b) : b \in BOOLEAN}

\* "q.where(User.is_active == is_active)" when the filter is given
Matching(rows, is_active) ==
    IF ~is_active.given THEN rows ELSE {r \in rows : r.is_active = is_active.value}

\* ORDER BY created_at DESC: every arrangement of the rows in which no row
\* comes before one that was created later; rows created at the same time
\* come in an order the database chooses
Ordered(rows) ==
    {s \in [1..Cardinality(rows) -> rows] :
        /\ \A i, j \in DOMAIN s : i # j => s[i] # s[j]
        /\ \A i, j \in DOMAIN s : i < j => s[i].created_at >= s[j].created_at}

\* mutant: a page query without the OFFSET
Window_NoOffset(s, skip, limit) ==
    [i \in 1..(IF Len(s) < limit THEN Len(s) ELSE limit) |-> s[i]]

\* OFFSET skip LIMIT limit
Window(s, skip, limit) ==
    [i \in 1..(IF Len(s) - skip < 0 THEN 0
               ELSE IF Len(s) - skip < limit THEN Len(s) - skip ELSE limit)
        |-> s[skip + i]]

\* list_users up to its second awaited query: the count
list_users(p, is_active, skip, limit) ==
    /\ Free(p)
    /\ LET arg == [is_active |-> is_active, skip |-> skip, limit |-> limit]
           total == Cardinality(Matching(users, is_active))
       IN  Set(p, Begin("list_users", arg, "list_page", [total |-> total]))
    /\ UNCHANGED <<users, nextId, clock, ticks, held>>

\* the page query of list_users and the return
list_users_page(p) ==
    /\ pr[p].pc = "list_page"
    /\ \E s \in Ordered(Matching(users, pr[p].arg.is_active)) :
          LET page == Window(s, pr[p].arg.skip, pr[p].arg.limit)
          IN  Set(p, Return(pr[p],
                            [users |-> [i \in DOMAIN page |-> to_user_response(page[i])],
                             total |-> pr[p].loc.total,
                             skip |-> pr[p].arg.skip, limit |-> pr[p].arg.limit]))
    /\ UNCHANGED <<users, nextId, clock, ticks, held>>

(* -------------------------------- Stats ------------------------------- *)
\* get_user_stats up to its second awaited query: the count of all rows
get_user_stats(p) ==
    /\ Free(p)
    /\ Set(p, Begin("get_user_stats", Nil, "stats_active",
                    [total_users |-> Cardinality(users)]))
    /\ UNCHANGED <<users, nextId, clock, ticks, held>>

\* the count of the active rows, the subtraction and the return
get_user_stats_active(p) ==
    /\ pr[p].pc = "stats_active"
    /\ LET total_users == pr[p].loc.total_users
           active_users == Cardinality({r \in users : r.is_active})
       IN  Set(p, Return(pr[p], [total_users |-> total_users,
                                 active_users |-> active_users,
                                 inactive_users |-> total_users - active_users]))
    /\ UNCHANGED <<users, nextId, clock, ticks, held>>

(* ------------------------------ environment --------------------------- *)
\* the response is sent and the process is free for the next request
Ack(p) ==
    /\ pr[p].pc = "done"
    /\ pr' = [pr EXCEPT ![p] = Idle]
    /\ UNCHANGED <<users, nextId, clock, ticks, held>>

\* the clock advances by d minutes
Tick(d) ==
    /\ ticks < MaxTicks
    /\ clock' = clock + d
    /\ ticks' = ticks + 1
    /\ UNCHANGED <<users, nextId, pr, held>>

\* a holder of the server key has the codec issue a token, and a client
\* keeps it
Mint(token) ==
    /\ held' = {token}
    /\ UNCHANGED <<users, nextId, clock, ticks, pr>>

(* ------------------------------- inputs ------------------------------- *)
\* path parameters: the text of every identifier, and a text that is none
UserIdInputs == {str(i) : i \in Ids} \cup {JunkStr}

\* update_data.dict(exclude_unset=True): any subset of the four fields
Supplied(field, values) == {NoClaims} \cup {Claims1(field, v) : v \in values}
UpdateDicts ==
    {Update(Update(e, u), Update(f, a)) :
        e \in Supplied("email", Emails), u \in Supplied("username", Usernames),
        f \in Supplied("full_name", FullNames), a \in Supplied("is_active", BOOLEAN)}

\* the updates that supply the active flag only
ActiveFlagDicts == {d \in UpdateDicts : DOMAIN d = {"is_active"}}

(* ------------------- the directory under concurrency ------------------ *)
\* Any two requests of Register, Login, Update and Delete in flight at once.
\* The updates are those of the unique columns; the clock stands still.
KeyUpdateDicts == {d \in UpdateDicts : DOMAIN d \subseteq {"email", "username"}}

Next ==
    \/ \E p \in Procs, e \in Emails, u \in Usernames :
           create_user(p, e, u, NoneS, TRUE, "pw12345")
    \/ \E p \in Procs : create_user_commit(p)
    \/ \E p \in Procs : create_user_refresh(p)
    \/ \E p \in Procs, u \in Usernames, pw \in Passwords : login_user(p, u, pw)
    \/ \E p \in Procs : login_user_commit(p, FALSE)
    \/ \E p \in Procs, i \in UserIdInputs, d \in KeyUpdateDicts : update_user(p, i, d)
    \/ \E p \in Procs : update_user_check(p)
    \/ \E p \in Procs : update_user_commit(p)
    \/ \E p \in Procs : update_user_refresh(p)
    \/ \E p \in Procs, i \in UserIdInputs : delete_user(p, i)
    \/ \E p \in Procs : delete_user_commit(p)
    \/ \E p \in Procs : Ack(p)

Spec == Init /\ [][Next]_vars

(* ---------------------- Stats under concurrency ----------------------- *)
\* Stats runs while requests of Register, Update of the active flag and
\* Delete are in flight; the clock stands still.
NextStats ==
    \/ \E p \in Procs, e \in Emails, u \in Usernames :
           create_user(p, e, u, NoneS, TRUE, "pw12345")
    \/ \E p \in Procs : create_user_commit(p)
    \/ \E p \in Procs : create_user_refresh(p)
    \/ \E p \in Procs, i \in UserIdInputs, a \in BOOLEAN :
           update_user(p, i, Claims1("is_active", a))
    \/ \E p \in Procs : update_user_commit(p)
    \/ \E p \in Procs : update_user_refresh(p)
    \/ \E p \in Procs, i \in UserIdInputs : delete_user(p, i)
    \/ \E p \in Procs : delete_user_commit(p)
    \/ \E p \in Procs : get_user_stats(p)
    \/ \E p \in Procs : get_user_stats_active(p)
    \/ \E p \in Procs : Ack(p)

SpecStats == Init /\ [][NextStats]_vars

(* --------------------------- sessions in sequence --------------------- *)
\* The account of alice, registered at time 0, is logged in to, deactivated,
\* reactivated and deleted by requests that run one after the other, while
\* the clock advances past the lifetimes of the tokens and clients present
\* the tokens they hold, altered tokens, and text that is no token.
SessionProcs == {p \in Procs : \A q \in Procs : p <= q}

\* the table after Register("a@x.com", "alice", "pw12345") at time 0
Alice ==
    [id |-> 1, email |-> "a@x.com", username |-> "alice", full_name |-> NoneS,
     is_active |-> TRUE, password_hash |-> get_password_hash("pw12345"),
     created_at |-> 0, updated_at |-> 0, last_login |-> NoneT]

InitSession ==
    /\ nextId = 2
    /\ clock = 0
    /\ ticks = 0
    /\ users = {Alice}
    /\ pr = [p \in Procs |-> Idle]
    /\ held = {}

\* tokens signed with the server key whose subject is not the identifier
\* text the service writes, or that have no subject at all
OddSubjects == {EmptyStr, JunkStr} \cup {Str("urn", r.id) : r \in users}
Minted(now) ==
    {create_refresh_token(s, NoneT, NoClaims, now) : s \in OddSubjects}
    \cup {JwtEncode([type |-> "refresh",
                     exp |-> now + REFRESH_TOKEN_EXPIRE_DAYS * MinutesPerDay], SECRET_KEY)}

TokenInputs == held \cup {Tamper(t) : t \in held} \cup {GarbageToken}

NextSession ==
    \/ \E p \in SessionProcs, pw \in Passwords : login_user(p, "alice", pw)
    \/ \E p \in SessionProcs, keep \in BOOLEAN : login_user_commit(p, keep)
    \/ \E p \in SessionProcs, i \in UserIdInputs, a \in BOOLEAN :
           update_user(p, i, Claims1("is_active", a))
    \/ \E p \in SessionProcs : update_user_commit(p)
    \/ \E p \in SessionProcs : update_user_refresh(p)
    \/ \E p \in SessionProcs, i \in UserIdInputs : delete_user(p, i)
    \/ \E p \in SessionProcs : delete_user_commit(p)
    \/ \E p \in SessionProcs, t \in TokenInputs, keep \in BOOLEAN :
           refresh_token(p, t, keep)
    \/ \E p \in SessionProcs, t \in TokenInputs : get_current_user(p, t)
    \/ \E t \in Minted(clock) : Mint(t)
    \/ \E d \in {1, ACCESS_TOKEN_EXPIRE_MINUTES, REFRESH_TOKEN_EXPIRE_DAYS * MinutesPerDay} :
           Tick(d)
    \/ \E p \in SessionProcs : Ack(p)

SpecSession == InitSession /\ [][NextSession]_vars

(* ---------------------- the directory in sequence --------------------- *)
\* Requests of Register, Update of the active flag, Delete and Get run one
\* after the other while the clock advances a minute at a time.
NextDirectory ==
    \/ \E p \in SessionProcs, e \in Emails, u \in Usernames, a \in BOOLEAN :
           create_user(p, e, u, NoneS, a, "pw12345")
    \/ \E p \in SessionProcs : create_user_commit(p)
    \/ \E p \in SessionProcs : create_user_refresh(p)
    \/ \E p \in SessionProcs, i \in UserIdInputs, d \in ActiveFlagDicts :
           update_user(p, i, d)
    \/ \E p \in SessionProcs : update_user_commit(p)
    \/ \E p \in SessionProcs : update_user_refresh(p)
    \/ \E p \in SessionProcs, i \in UserIdInputs : delete_user(p, i)
    \/ \E p \in SessionProcs : delete_user_commit(p)
    \/ \E p \in SessionProcs, i \in UserIdInputs : get_user(p, i)
    \/ Tick(1)
    \/ \E p \in SessionProcs : Ack(p)

SpecDirectory == Init /\ [][NextDirectory]_vars

(* ------------------------- updates in sequence ------------------------ *)
\* Two accounts are registered and updated with every combination of
\* supplied fields and values, by requests that run one after the other
\* while the clock advances a minute at a time.
Registrations == {<<"a@x.com", "alice">>, <<"b@x.com", "bob">>}

NextUpdate ==
    \/ \E p \in SessionProcs, eu \in Registrations :
           create_user(p, eu[1], eu[2], NoneS, TRUE, "pw12345")
    \/ \E p \in SessionProcs : create_user_commit(p)
    \/ \E p \in SessionProcs : create_user_refresh(p)
    \/ \E p \in SessionProcs, i \in UserIdInputs, d \in UpdateDicts : update_user(p, i, d)
    \/ \E p \in SessionProcs : update_user_check(p)
    \/ \E p \in SessionProcs : update_user_commit(p)
    \/ \E p \in SessionProcs : update_user_refresh(p)
    \/ Tick(1)
    \/ \E p \in SessionProcs : Ack(p)

SpecUpdate == Init /\ [][NextUpdate]_vars

(* --------------------------- listing a table -------------------------- *)
\* The table holds ListAccounts accounts, registered two to the minute; they
\* are deactivated, reactivated and deleted, and List is called with every
\* filter, every skip up to the size of the table and every limit up to it.
ListEmails == <<"a@x.com", "b@x.com", "c@x.com", "d@x.com", "e@x.com">>
ListUsernames == <<"alice", "bob", "carol", "dave", "erin">>

\* the account the i-th Register created
Listed(i) ==
    [id |-> i, email |-> ListEmails[i], username |-> ListUsernames[i], full_name |-> NoneS,
     is_active |-> TRUE, password_hash |-> get_password_hash("pw12345"),
     created_at |-> (i - 1) \div 2, updated_at |-> (i - 1) \div 2, last_login |-> NoneT]

InitList ==
    /\ users = {Listed(i) : i \in 1..ListAccounts}
    /\ nextId = ListAccounts + 1
    /\ clock = (ListAccounts - 1) \div 2
    /\ ticks = 0
    /\ pr = [p \in Procs |-> Idle]
    /\ held = {}

ListIdInputs == {str(i) : i \in 1..ListAccounts}
ListSkips == 0..ListAccounts
ListLimits == 1..ListAccounts

NextList ==
    \/ \E p \in SessionProcs, i \in ListIdInputs, a \in BOOLEAN :
           update_user(p, i, Claims1("is_active", a))
    \/ \E p \in SessionProcs : update_user_commit(p)
    \/ \E p \in SessionProcs : update_user_refresh(p)
    \/ \E p \in SessionProcs, i \in ListIdInputs : delete_user(p, i)
    \/ \E p \in SessionProcs : delete_user_commit(p)
    \/ \E p \in SessionProcs, a \in ActiveFilters, s \in ListSkips, l \in ListLimits :
           list_users(p, a, s, l)
    \/ \E p \in SessionProcs : list_users_page(p)
    \/ \E p \in SessionProcs : Ack(p)

SpecList == InitList /\ [][NextList]_vars

(* ------------------------- logins in sequence ------------------------- *)
\* Accounts are registered, logged in to with the right and with a wrong
\* password, deactivated, reactivated and deleted, by requests that run one
\* after the other while the clock advances a minute at a time.
NextLogin ==
    \/ \E p \in SessionProcs, e \in Emails, u \in Usernames :
           create_user(p, e, u, NoneS, TRUE, "pw12345")
    \/ \E p \in SessionProcs : create_user_commit(p)
    \/ \E p \in SessionProcs : create_user_refresh(p)
    \/ \E p \in SessionProcs, u \in Usernames, pw \in Passwords : login_user(p, u, pw)
    \/ \E p \in SessionProcs : login_user_commit(p, FALSE)
    \/ \E p \in SessionProcs, i \in UserIdInputs, d \in ActiveFlagDicts :
           update_user(p, i, d)
    \/ \E p \in SessionProcs : update_user_commit(p)
    \/ \E p \in SessionProcs : update_user_refresh(p)
    \/ \E p \in SessionProcs, i \in UserIdInputs : delete_user(p, i)
    \/ \E p \in SessionProcs : delete_user_commit(p)
    \/ Tick(1)
    \/ \E p \in SessionProcs : Ack(p)

SpecLogin == Init /\ [][NextLogin]_vars

(* ----------------------- register, login, guard ---------------------- *)
\* Accounts are registered, renamed and logged in to; a client keeps a token
\* of a login and presents it to the guard, at once or after the lifetime of
\* an access token has passed.
RenameDicts == {d \in UpdateDicts : DOMAIN d = {"username"}}

NextEndToEnd ==
    \/ \E p \in SessionProcs, e \in Emails, u \in Usernames :
           create_user(p, e, u, NoneS, TRUE, "pw12345")
    \/ \E p \in SessionProcs : create_user_commit(p)
    \/ \E p \in SessionProcs : create_user_refresh(p)
    \/ \E p \in SessionProcs, u \in Usernames : login_user(p, u, "pw12345")
    \/ \E p \in SessionProcs, keep \in BOOLEAN : login_user_commit(p, keep)
    \/ \E p \in SessionProcs, i \in UserIdInputs, d \in RenameDicts : update_user(p, i, d)
    \/ \E p \in SessionProcs : update_user_check(p)
    \/ \E p \in SessionProcs : update_user_commit(p)
    \/ \E p \in SessionProcs : update_user_refresh(p)
    \/ \E p \in SessionProcs, t \in held : get_current_user(p, t)
    \/ Tick(ACCESS_TOKEN_EXPIRE_MINUTES + 1)
    \/ \E p \in SessionProcs : Ack(p)

SpecEndToEnd == Init /\ [][NextEndToEnd]_vars

(* ------------------------ refresh tokens in use ----------------------- *)
\* The account of alice is logged in to and the client presents a token of
\* the pair, again and again, to RefreshSession, on one connection and on
\* another while the response of the first is still there; meanwhile the
\* account is deactivated, reactivated or deleted and the clock advances, by
\* a minute or by the lifetime of a refresh token.
NextRefresh ==
    \/ \E p \in SessionProcs : login_user(p, "alice", "pw12345")
    \/ \E p \in SessionProcs : login_user_commit(p, TRUE)
    \/ \E p \in Procs, t \in held : refresh_token(p, t, FALSE)
    \/ \E p \in SessionProcs, d \in ActiveFlagDicts : update_user(p, str(Alice.id), d)
    \/ \E p \in SessionProcs : update_user_commit(p)
    \/ \E p \in SessionProcs : update_user_refresh(p)
    \/ \E p \in SessionProcs : delete_user(p, str(Alice.id))
    \/ \E p \in SessionProcs : delete_user_commit(p)
    \/ \E d \in {1, REFRESH_TOKEN_EXPIRE_DAYS * MinutesPerDay} : Tick(d)
    \/ \E p \in Procs : Ack(p)

SpecRefresh == InitSession /\ [][NextRefresh]_vars

(* ------------------------ an account switched off --------------------- *)
\* The account of alice is deactivated and reactivated by Update, logged in
\* to with the right and the wrong password, and the client presents the
\* token it holds to the guard and, on any connection, to RefreshSession,
\* while the clock advances by minutes.
NextInactive ==
    \/ \E p \in SessionProcs, pw \in Passwords : login_user(p, "alice", pw)
    \/ \E p \in SessionProcs : login_user_commit(p, TRUE)
    \/ \E p \in SessionProcs, d \in ActiveFlagDicts : update_user(p, str(Alice.id), d)
    \/ \E p \in SessionProcs : update_user_commit(p)
    \/ \E p \in SessionProcs : update_user_refresh(p)
    \/ \E p \in SessionProcs, t \in held : get_current_user(p, t)
    \/ \E p \in Procs, t \in held : refresh_token(p, t, FALSE)
    \/ Tick(1)
    \/ \E p \in Procs : Ack(p)

SpecInactive == InitSession /\ [][NextInactive]_vars

(* ------------------------ the hasher on its own ----------------------- *)
\* get_password_hash is called with short and with long passwords, as the
\* context is configured and as it would be with each of its other schemes
\* first, with either bcrypt library; every password is then verified
\* against the hash.
HasherPasswords == Passwords \cup LongPasswords \cup {"long-72-bytes"}
SchemeSet == {Schemes[i] : i \in DOMAIN Schemes}

\* one call of get_password_hash
Hash(p, scheme, backend, password) ==
    /\ Free(p)
    /\ LET arg == [scheme |-> scheme, backend |-> backend, password |-> password]
       IN  Set(p, [Begin("get_password_hash", arg, "hashed", Nil)
                       EXCEPT !.body = HashUnder(scheme, backend, password)])
    /\ UNCHANGED <<users, nextId, clock, ticks, held>>

\* one call of verify_password against the hash
Verify(p, plain_password) ==
    /\ pr[p].pc = "hashed"
    /\ Set(p, [pr[p] EXCEPT !.pc = "done",
                            !.loc = [plain_password |-> plain_password,
                                     hashed_password |-> pr[p].body],
                            !.body = [ok |-> verify_password(plain_password, pr[p].body)]])
    /\ UNCHANGED <<users, nextId, clock, ticks, held>>

NextHasher ==
    \/ \E p \in SessionProcs, sch \in SchemeSet, b \in Backends, pw \in HasherPasswords :
           Hash(p, sch, b, pw)
    \/ \E p \in SessionProcs, pw \in HasherPasswords : Verify(p, pw)
    \/ \E p \in SessionProcs : Ack(p)

SpecHasher == Init /\ [][NextHasher]_vars

(* ------------------------- the codec on its own ------------------------ *)
\* The three functions of the codec are called with subjects, lifetimes and
\* extra claims drawn from small sets; the tokens issued are decoded as they
\* are, altered, and after the clock has advanced.
Subjects == {str(i) : i \in Ids} \cup {JunkStr}
Lifetimes == {NoneT, 0, 1, ACCESS_TOKEN_EXPIRE_MINUTES + 1}
Extras ==
    {NoClaims, Claims1("username", "alice"), Claims1("sub", JunkStr),
     Claims1("type", "refresh"), Claims1("type", "access")}

\* one call of create_access_token or create_refresh_token
Issue(p, fn, subject, expires, extra) ==
    /\ Free(p)
    /\ LET arg == [subject |-> subject, expires |-> expires, extra |-> extra, now |-> clock]
           token == IF fn = "create_access_token"
                    THEN create_access_token(subject, expires, extra, clock)
                    ELSE create_refresh_token(subject, expires, extra, clock)
       IN  Set(p, [Begin(fn, arg, "issued", Nil) EXCEPT !.body = token])
    /\ UNCHANGED <<users, nextId, clock, ticks, held>>

\* what is presented of an issued token
Presented(token, how) ==
    IF how = "intact" THEN token ELSE IF how = "altered" THEN Tamper(token) ELSE GarbageToken

\* one call of decode_token, on what is presented of the issued token
Decode(p, how) ==
    /\ pr[p].pc = "issued"
    /\ LET token == Presented(pr[p].body, how)
           q == [pr[p] EXCEPT !.loc = [token |-> token, how |-> how, at |-> clock]]
       IN  IF DecodeRaises(token, clock)
           THEN Set(p, [q EXCEPT !.pc = "done", !.exc = "JWTError"])
           ELSE Set(p, [q EXCEPT !.pc = "done", !.body = decode_token(token)])
    /\ UNCHANGED <<users, nextId, clock, ticks, held>>

NextCodec ==
    \/ \E p \in SessionProcs, fn \in {"create_access_token", "create_refresh_token"},
          s \in Subjects, t \in Lifetimes, x \in Extras : Issue(p, fn, s, t, x)
    \/ \E p \in SessionProcs, how \in {"intact", "altered", "garbage"} : Decode(p, how)
    \/ \E d \in {1, ACCESS_TOKEN_EXPIRE_MINUTES, REFRESH_TOKEN_EXPIRE_DAYS * MinutesPerDay} :
           Tick(d)
    \/ \E p \in SessionProcs : Ack(p)

SpecCodec == Init /\ [][NextCodec]_vars

(* ======================= properties of the directory ================== *)
\* process p takes a request of handler op in this step
Takes(p, op) == pr[p].pc = "idle" /\ pr'[p].pc # "idle" /\ pr'[p].op = op
\* process p runs the step of its request that it is at pc for
Runs(p, pc) == pr[p].pc = pc /\ pr'[p] # pr[p]
Answered(p, status) == pr'[p].pc = "done" /\ pr'[p].status = status

\* C1: in every reachable state, under every interleaving of Register,
\* Update, Delete and Login requests, no two distinct accounts have the same
\* email and no two have the same username (nor the same identifier).
C1_UniqueEmailAndUsername ==
    \A a, b \in users :
        a # b => a.id # b.id /\ a.email # b.email /\ a.username # b.username

\* two requests raced for a unique value and the table refused the loser
C1_Witness ==
    /\ Cardinality(users) = 2
    /\ \E p \in Procs : pr[p].pc = "done" /\ pr[p].exc = "IntegrityError"

\* C2: Register answers 409 whenever an existing account has the submitted
\* email or the submitted username, and then leaves the table unchanged.
C2_RegisterConflict ==
    [][\A p \in Procs :
          (/\ Takes(p, "create_user")
           /\ \E r \in users : \/ r.email = pr'[p].arg.email
                               \/ r.username = pr'[p].arg.username)
          => Answered(p, 409) /\ users' = users]_vars

\* C3: Update of an existing account answers 409 whenever another account
\* has the supplied email or the supplied username, whichever fields are
\* supplied, and then leaves the table unchanged.
TakenByOther(rows, uid, update_dict) ==
    \E r \in rows :
        /\ r.id # uid
        /\ \/ "email" \in DOMAIN update_dict /\ r.email = update_dict["email"]
           \/ "username" \in DOMAIN update_dict /\ r.username = update_dict["username"]

C3_UpdateConflict ==
    [][\A p \in Procs :
          (/\ Runs(p, "update_check")
           /\ TakenByOther(users, pr[p].loc.old.id, pr[p].arg.update_data))
          => Answered(p, 409) /\ users' = users]_vars

\* C16: a Register or an Update whose write the table refuses, because
\* another account has the email or the username by the time of the commit,
\* answers 409 and leaves the table unchanged, also when the other account
\* was committed after the request had passed its own check.
C16_RefusedWriteIs409 ==
    [][\A p \in Procs :
          /\ (/\ Runs(p, "create_commit")
              /\ \E r \in users : \/ r.email = pr[p].arg.email
                                  \/ r.username = pr[p].arg.username)
             => Answered(p, 409) /\ users' = users
          /\ (/\ Runs(p, "update_commit")
              /\ ById(users, pr[p].loc.old.id) # {}
              /\ TakenByOther(users, pr[p].loc.old.id, pr[p].arg.update_data))
             => Answered(p, 409) /\ users' = users]_vars

\* C19: Stats returns inactive = total - active, with the three numbers
\* those of the accounts, the active accounts and the inactive accounts of
\* the table, and inactive not negative, also when a Register, an Update or a
\* Delete commits between its two count queries.
C19_StatsConsistent ==
    [][\A p \in Procs :
          Runs(p, "stats_active") =>
              /\ Answered(p, 200)
              /\ pr'[p].body.inactive_users
                     = pr'[p].body.total_users - pr'[p].body.active_users
              /\ pr'[p].body.inactive_users >= 0
              /\ pr'[p].body.active_users <= pr'[p].body.total_users]_vars

(* ================= properties of the guard and of sessions ============ *)
\* the token is a JWS signed with the server key and its expiry, if it has
\* one, has not passed at time now
Decodes(t, now) ==
    /\ t.wf
    /\ t.sig = [key |-> SECRET_KEY, over |-> t.payload]
    /\ ("exp" \in DOMAIN t.payload => t.payload["exp"] >= now)
\* the token has a subject that is not empty and reads as an identifier
HasIdSubject(t) ==
    /\ "sub" \in DOMAIN t.payload
    /\ t.payload["sub"].fmt \in {"hex", "urn"}
AccountsOf(t, rows) == {r \in rows : r.id = t.payload["sub"].n}
IsRefresh(t) == "type" \in DOMAIN t.payload /\ t.payload["type"] = "refresh"

\* C4: the guard returns an account only for a token that decodes, has a
\* subject that reads as an identifier and names an account in the table at
\* that moment, and then returns that account; in every other case it
\* answers 401 with one and the same detail.
C4_GuardFailsClosed ==
    [][\A p \in Procs :
          Takes(p, "get_current_user") =>
              LET t == pr'[p].arg.token
              IN  IF Decodes(t, clock) /\ HasIdSubject(t) /\ AccountsOf(t, users) # {}
                  THEN Answered(p, 200) /\ {pr'[p].body} = AccountsOf(t, users)
                  ELSE /\ Answered(p, 401)
                       /\ pr'[p].detail = "Invalid credentials"
                       /\ pr'[p].body = Nil]_vars

\* the guard has turned down a good token of an account that was deleted
C4_Witness ==
    \E p \in Procs :
        /\ pr[p].pc = "done" /\ pr[p].op = "get_current_user" /\ pr[p].status = 401
        /\ Decodes(pr[p].arg.token, clock)
        /\ HasIdSubject(pr[p].arg.token)
        /\ "username" \in DOMAIN pr[p].arg.token.payload
        /\ AccountsOf(pr[p].arg.token, users) = {}

\* C5: RefreshSession issues a pair only for a token that decodes, is of
\* kind "refresh" and names an account that exists and is active at that
\* moment; a decodable token of another kind gets 400; a refresh token of a
\* deleted or deactivated account gets 401.
C5_RefreshNeedsActiveAccount ==
    [][\A p \in Procs :
          Takes(p, "refresh_token") =>
              LET t == pr'[p].arg.refresh_token
              IN  /\ Answered(p, 200) =>
                        /\ Decodes(t, clock) /\ IsRefresh(t) /\ HasIdSubject(t)
                        /\ \E r \in AccountsOf(t, users) : r.is_active
                        /\ pr'[p].body.access_token.payload["sub"].n = t.payload["sub"].n
                        /\ pr'[p].body.refresh_token.payload["sub"].n = t.payload["sub"].n
                  /\ (Decodes(t, clock) /\ ~IsRefresh(t)) => Answered(p, 400)
                  /\ (/\ Decodes(t, clock) /\ IsRefresh(t) /\ HasIdSubject(t)
                      /\ \A r \in AccountsOf(t, users) : ~r.is_active)
                     => Answered(p, 401) /\ held' = held]_vars

\* RefreshSession has turned down the good refresh token of an account that
\* exists and was deactivated
C5_Witness ==
    \E p \in Procs :
        /\ pr[p].pc = "done" /\ pr[p].op = "refresh_token" /\ pr[p].status = 401
        /\ Decodes(pr[p].arg.refresh_token, clock)
        /\ IsRefresh(pr[p].arg.refresh_token)
        /\ HasIdSubject(pr[p].arg.refresh_token)
        /\ \E r \in AccountsOf(pr[p].arg.refresh_token, users) : ~r.is_active

\* C6: RefreshSession answers 401 to a token that is malformed, whose
\* signature does not verify, or that has expired.
C6_RefreshBadTokenIs401 ==
    [][\A p \in Procs :
          (Takes(p, "refresh_token") /\ ~Decodes(pr'[p].arg.refresh_token, clock))
          => Answered(p, 401)]_vars

\* C7: RefreshSession answers 401 to a good token of kind "refresh" whose
\* subject is missing or does not read as an identifier.
C7_RefreshBadSubjectIs401 ==
    [][\A p \in Procs :
          (/\ Takes(p, "refresh_token")
           /\ Decodes(pr'[p].arg.refresh_token, clock)
           /\ IsRefresh(pr'[p].arg.refresh_token)
           /\ ~HasIdSubject(pr'[p].arg.refresh_token))
          => Answered(p, 401)]_vars

\* the tokens Login and RefreshSession have issued: those in the responses
\* and those of them that clients hold (they carry the username)
ResponseTokens ==
    UNION {{pr[p].body.access_token, pr[p].body.refresh_token} :
              p \in {q \in Procs : /\ pr[q].pc = "done" /\ pr[q].status = 200
                                   /\ pr[q].op \in {"login_user", "refresh_token"}}}
IssuedTokens == {t \in held \cup ResponseTokens : "username" \in DOMAIN t.payload}

\* C9: every token Login or RefreshSession issued has an expiry; it decodes
\* as long as the clock has not passed the expiry and is rejected, without
\* leeway, once it has, by decode, by the guard and by RefreshSession, and
\* it stays rejected from then on.
C9_ExpiryEnforced ==
    /\ [](\A t \in IssuedTokens :
             /\ "exp" \in DOMAIN t.payload
             /\ DecodeRaises(t, clock) <=> clock > t.payload["exp"])
    /\ [][/\ \A t \in IssuedTokens : DecodeRaises(t, clock) => DecodeRaises(t, clock')
          /\ \A p \in Procs :
                (/\ Takes(p, "get_current_user")
                 /\ pr'[p].arg.token \in IssuedTokens
                 /\ clock > pr'[p].arg.token.payload["exp"]) => Answered(p, 401)
          /\ \A p \in Procs :
                (/\ Takes(p, "refresh_token")
                 /\ pr'[p].arg.refresh_token \in IssuedTokens
                 /\ clock > pr'[p].arg.refresh_token.payload["exp"])
                => pr'[p].pc = "done" /\ pr'[p].status # 200 /\ held' = held]_vars

\* the guard has turned down the token of an account that exists, one
\* minute after the token expired
C9_Witness ==
    \E p \in Procs :
        /\ pr[p].pc = "done" /\ pr[p].op = "get_current_user" /\ pr[p].status = 401
        /\ pr[p].arg.token \in IssuedTokens
        /\ clock = pr[p].arg.token.payload["exp"] + 1
        /\ AccountsOf(pr[p].arg.token, users) # {}

\* process q still shows the pair RefreshSession issued it for token t
Consumed(q, t) ==
    /\ pr[q].pc = "done" /\ pr[q].op = "refresh_token" /\ pr[q].status = 200
    /\ pr[q].arg.refresh_token = t

\* C22: RefreshSession leaves the table as it is, and a refresh token that
\* RefreshSession has already issued a pair for is served again: presented
\* once more, it gets a new pair exactly when it has not expired and its
\* account exists and is active, whatever was issued for it before; the new
\* refresh token is valid next to the one presented.
C22_RefreshReusable ==
    [][\A p \in Procs :
          Takes(p, "refresh_token") =>
              LET t == pr'[p].arg.refresh_token
              IN  /\ users' = users /\ nextId' = nextId
                  /\ (\E q \in Procs \ {p} : Consumed(q, t)) =>
                        /\ Answered(p, 200) <=>
                              /\ Decodes(t, clock)
                              /\ \E r \in AccountsOf(t, users) : r.is_active
                        /\ Answered(p, 200) =>
                              LET n == pr'[p].body.refresh_token
                              IN  /\ IsRefresh(n) /\ n.payload["sub"] = t.payload["sub"]
                                  /\ Decodes(n, clock) /\ Decodes(t, clock)
                                  /\ n.payload["exp"] =
                                        clock + REFRESH_TOKEN_EXPIRE_DAYS * MinutesPerDay]_vars

\* one refresh token was presented twice, at different times, and got a pair
\* each time; it and the two refresh tokens issued for it are three tokens,
\* all valid now
C22_Witness ==
    \E p, q \in Procs :
        /\ p # q
        /\ Consumed(p, pr[p].arg.refresh_token)
        /\ Consumed(q, pr[p].arg.refresh_token)
        /\ pr[p].body.refresh_token.payload["exp"] < pr[q].body.refresh_token.payload["exp"]
        /\ pr[p].arg.refresh_token.payload["exp"] < pr[p].body.refresh_token.payload["exp"]
        /\ \A n \in {pr[p].arg.refresh_token, pr[p].body.refresh_token,
                      pr[q].body.refresh_token} : Decodes(n, clock)

\* C23: the guard resolves a refresh token that decodes and names an
\* account to that account, as it does an access token, up to the last
\* minute of the refresh token's lifetime, and turns it down with 401 only
\* from the next minute on.
C23_GuardTakesRefreshToken ==
    [][\A p \in Procs :
          (/\ Takes(p, "get_current_user")
           /\ pr'[p].arg.token \in IssuedTokens
           /\ IsRefresh(pr'[p].arg.token)) =>
              LET t == pr'[p].arg.token
                  issued == t.payload["exp"] - REFRESH_TOKEN_EXPIRE_DAYS * MinutesPerDay
              IN  /\ issued >= 0
                  /\ (clock <= t.payload["exp"] /\ AccountsOf(t, users) # {}) =>
                        Answered(p, 200) /\ {pr'[p].body} = AccountsOf(t, users)
                  /\ clock > t.payload["exp"] => Answered(p, 401)]_vars

\* the guard has resolved a refresh token in the last minute of its seven
\* days, long after the access token of the same pair has expired
C23_Witness ==
    \E p \in Procs :
        /\ pr[p].pc = "done" /\ pr[p].op = "get_current_user" /\ pr[p].status = 200
        /\ pr[p].arg.token \in IssuedTokens
        /\ IsRefresh(pr[p].arg.token)
        /\ clock = pr[p].arg.token.payload["exp"]
        /\ clock > ACCESS_TOKEN_EXPIRE_MINUTES
        /\ pr[p].body \in users

\* C24: for an account whose is_active is false, Login with the right
\* password goes through and answers 200 with a pair for that account, the
\* guard resolves its access token to it, and RefreshSession answers 401 to
\* its refresh token; once is_active is true again RefreshSession issues a
\* pair for the same token.
C24_ActiveGatesRefreshOnly ==
    [][\A p \in Procs :
          /\ (/\ Takes(p, "login_user")
              /\ pr'[p].arg.password = "pw12345"
              /\ \E r \in users : r.username = pr'[p].arg.username /\ ~r.is_active)
             => pr'[p].pc = "login_commit"
          /\ (Runs(p, "login_commit") /\ ~pr[p].loc.old.is_active) =>
                /\ Answered(p, 200)
                /\ ~IsRefresh(pr'[p].body.access_token)
                /\ Decodes(pr'[p].body.access_token, clock)
                /\ IsRefresh(pr'[p].body.refresh_token)
                /\ \A t \in {pr'[p].body.access_token, pr'[p].body.refresh_token} :
                      \E r \in AccountsOf(t, users') :
                          /\ r.id = pr[p].loc.old.id /\ ~r.is_active
                          /\ r.last_login = pr[p].loc.new.last_login
          /\ (/\ Takes(p, "get_current_user")
              /\ pr'[p].arg.token \in IssuedTokens
              /\ ~IsRefresh(pr'[p].arg.token)
              /\ Decodes(pr'[p].arg.token, clock)
              /\ \E r \in AccountsOf(pr'[p].arg.token, users) : ~r.is_active)
             => /\ Answered(p, 200)
                /\ {pr'[p].body} = AccountsOf(pr'[p].arg.token, users)
          /\ (/\ Takes(p, "refresh_token")
              /\ pr'[p].arg.refresh_token \in IssuedTokens
              /\ IsRefresh(pr'[p].arg.refresh_token)
              /\ Decodes(pr'[p].arg.refresh_token, clock)
              /\ AccountsOf(pr'[p].arg.refresh_token, users) # {})
             => IF \E r \in AccountsOf(pr'[p].arg.refresh_token, users) : r.is_active
                THEN Answered(p, 200)
                ELSE Answered(p, 401) /\ pr'[p].detail = "User not found"]_vars

\* the account was deactivated and logged in to later; the guard has
\* resolved the access token of that login to the inactive account, and
\* RefreshSession has answered 401 to the refresh token of the same login
C24_Witness ==
    \E p, q \in Procs, r \in users :
        /\ ~r.is_active
        /\ r.last_login # NoneT /\ r.last_login > r.updated_at
        /\ pr[p].pc = "done" /\ pr[p].op = "get_current_user" /\ pr[p].status = 200
        /\ pr[p].body = r
        /\ ~IsRefresh(pr[p].arg.token)
        /\ pr[p].arg.token.payload["exp"] = r.last_login + ACCESS_TOKEN_EXPIRE_MINUTES
        /\ pr[q].pc = "done" /\ pr[q].op = "refresh_token" /\ pr[q].status = 401
        /\ IsRefresh(pr[q].arg.refresh_token)
        /\ AccountsOf(pr[q].arg.refresh_token, users) = {r}
        /\ pr[q].arg.refresh_token.payload["exp"] =
              r.last_login + REFRESH_TOKEN_EXPIRE_DAYS * MinutesPerDay

(* ======================== properties of the codec ===================== *)
LifetimeUnit(fn) == IF fn = "create_access_token" THEN 1 ELSE MinutesPerDay

\* C8: a token issued with an explicitly supplied lifetime t >= 0 expires at
\* issue time + t; a token issued with lifetime 0 no longer decodes once
\* the clock has moved on.
C8_ExplicitLifetime ==
    \A p \in Procs :
        /\ (/\ pr[p].pc = "issued"
            /\ pr[p].arg.expires # NoneT
            /\ "exp" \notin DOMAIN pr[p].arg.extra)
           => pr[p].body.payload["exp"]
                  = pr[p].arg.now + pr[p].arg.expires * LifetimeUnit(pr[p].op)
        /\ (/\ pr[p].pc = "done" /\ pr[p].op \in {"create_access_token", "create_refresh_token"}
            /\ pr[p].arg.expires = 0
            /\ pr[p].loc.how = "intact"
            /\ pr[p].loc.at > pr[p].arg.now)
           => pr[p].exc = "JWTError"

\* C10: for every subject s and every extra claims, decoding the access
\* token issued for s gives sub = s and no type "refresh", and decoding the
\* refresh token issued for s gives sub = s and type "refresh".
C10_RoundTrip ==
    \A p \in Procs :
        (/\ pr[p].pc = "done" /\ pr[p].op \in {"create_access_token", "create_refresh_token"}
         /\ pr[p].loc.how = "intact"
         /\ pr[p].loc.at = pr[p].arg.now)
        => /\ pr[p].exc = ""
           /\ pr[p].body["sub"] = pr[p].arg.subject
           /\ pr[p].op = "create_access_token"
                  => ~("type" \in DOMAIN pr[p].body /\ pr[p].body["type"] = "refresh")
           /\ pr[p].op = "create_refresh_token"
                  => ("type" \in DOMAIN pr[p].body /\ pr[p].body["type"] = "refresh")

(* ================= properties of the directory in sequence ============ *)
\* the accounts a Login with this username and password is for
LoginMatches(rows, username, password) ==
    {r \in rows : r.username = username /\ r.password_hash = get_password_hash(password)}

\* C11: a Login whose username no account has and a Login whose password is
\* not the account's both answer 401 with the same detail and leave the
\* table unchanged; a Login that succeeds has stamped last_login with the
\* time the handler read, writes it to that account's row in the step that
\* returns the token pair, and changes nothing else in the table.
C11_LoginOutcome ==
    [][\A p \in Procs :
          /\ Takes(p, "login_user") =>
                /\ users' = users
                /\ IF LoginMatches(users, pr'[p].arg.username, pr'[p].arg.password) = {}
                   THEN /\ Answered(p, 401)
                        /\ pr'[p].detail = "Incorrect username or password"
                        /\ pr'[p].body = Nil
                   ELSE /\ pr'[p].pc = "login_commit"
                        /\ pr'[p].loc.new.last_login = clock
          /\ (Runs(p, "login_commit") /\ Answered(p, 200)) =>
                \E r \in users :
                    /\ r.username = pr[p].arg.username
                    /\ users' = (users \ {r})
                                \cup {[r EXCEPT !.last_login = pr[p].loc.new.last_login]}
                    /\ pr'[p].body.access_token.payload["sub"] = str(r.id)
                    /\ pr'[p].body.refresh_token.payload["sub"] = str(r.id)]_vars

\* a Login has succeeded after the clock advanced, next to a second account
C11_Witness ==
    \E p \in Procs :
        /\ pr[p].pc = "done" /\ pr[p].op = "login_user" /\ pr[p].status = 200
        /\ clock > 0
        /\ Cardinality(users) = 2
        /\ \E r \in users : r.username = pr[p].arg.username /\ r.last_login = clock

\* the access tokens of logins: they carry the username and no kind
IsLoginAccess(t) ==
    /\ "username" \in DOMAIN t.payload
    /\ "type" \notin DOMAIN t.payload

\* C12: the access token a successful Login returns names, as its subject,
\* the account that has the submitted username; an identifier is given to
\* one account only and stays with it; and the guard, presented with the
\* access token of a login while the token is unexpired and the account of
\* its subject exists, returns that account and no other, whatever
\* registrations, renames and logins have happened in between.
C12_EndToEnd ==
    [][/\ \A r \in users : \A r2 \in users' : r2.id = r.id => r2.created_at = r.created_at
       /\ \A r2 \in users' : (\A r \in users : r.id # r2.id) => r2.id = nextId /\ nextId' > nextId
       /\ \A p \in Procs :
             /\ (Runs(p, "login_commit") /\ Answered(p, 200)) =>
                   \E r \in users' :
                       /\ r.username = pr[p].arg.username
                       /\ pr'[p].body.access_token.payload["sub"] = str(r.id)
                       /\ IsLoginAccess(pr'[p].body.access_token)
             /\ (/\ Takes(p, "get_current_user")
                 /\ IsLoginAccess(pr'[p].arg.token)
                 /\ clock <= pr'[p].arg.token.payload["exp"]
                 /\ AccountsOf(pr'[p].arg.token, users) # {})
                => /\ Answered(p, 200)
                   /\ pr'[p].body \in users
                   /\ str(pr'[p].body.id) = pr'[p].arg.token.payload["sub"]]_vars

\* the guard has resolved the access token of a login to the account that
\* logged in, after that account was renamed and its former username was
\* registered by another account
C12_Witness ==
    \E p \in Procs :
        /\ pr[p].pc = "done" /\ pr[p].op = "get_current_user" /\ pr[p].status = 200
        /\ IsLoginAccess(pr[p].arg.token)
        /\ pr[p].body.username # pr[p].arg.token.payload["username"]
        /\ \E r \in users : /\ r.username = pr[p].arg.token.payload["username"]
                            /\ r.id # pr[p].body.id

\* the row of the table that a step has changed, as it was and as it is
Changed(rows, rows2) ==
    {<<r, r2>> \in rows \X rows2 : r2.id = r.id /\ r2 # r}

\* C13: updated_at of an account never decreases, and every step that
\* changes the row of an account (the commit of a successful Update, the
\* commit of a successful Login) leaves its updated_at at the time the
\* handler read for that change.
C13_UpdatedAtRefreshed ==
    [][/\ \A c \in Changed(users, users') : c[2].updated_at >= c[1].updated_at
       /\ \A p \in Procs :
             /\ Runs(p, "update_commit") =>
                   \A c \in Changed(users, users') :
                       c[2].updated_at = pr[p].loc.new.updated_at
             /\ Runs(p, "login_commit") =>
                   \A c \in Changed(users, users') :
                       c[2].updated_at = pr[p].loc.new.last_login]_vars

ProfileFields == {"email", "username", "full_name", "is_active"}
KeptFields == {"id", "password_hash", "created_at", "last_login"}

\* C14: the commit of a successful Update leaves the account with the
\* supplied values in the supplied fields and the old values in the other
\* profile fields, with updated_at at the time the handler read, with its
\* id, password_hash, created_at and last_login as they were, and leaves
\* every other account as it was; the response shows that row; and no step
\* of any operation changes the identifier or the creation time of a row.
C14_UpdateFrame ==
    [][/\ \A r \in users : \A r2 \in users' : r2.id = r.id => r2.created_at = r.created_at
       /\ \A p \in Procs :
             /\ ((Takes(p, "update_user") \/ Runs(p, "update_check"))
                 /\ pr'[p].pc = "update_commit") => pr'[p].loc.new.updated_at = clock
             /\ (Runs(p, "update_commit") /\ pr'[p].pc = "update_refresh") =>
                   \E r \in users : \E r2 \in users' :
                       /\ str(r.id) = pr[p].arg.user_id
                       /\ r2.id = r.id
                       /\ users' \ {r2} = users \ {r}
                       /\ \A f \in ProfileFields :
                             r2[f] = IF f \in DOMAIN pr[p].arg.update_data
                                     THEN pr[p].arg.update_data[f] ELSE r[f]
                       /\ r2.updated_at = pr[p].loc.new.updated_at
                       /\ \A f \in KeptFields : r2[f] = r[f]
             /\ (Runs(p, "update_refresh") /\ Answered(p, 200)) =>
                   /\ users' = users
                   /\ \E r \in users : /\ str(r.id) = pr[p].arg.user_id
                                       /\ pr'[p].body = to_user_response(r)]_vars

\* an Update that supplied the email and the active flag has succeeded after
\* the clock advanced: the display name set earlier is still there, and a
\* second account exists
C14_Witness ==
    \E p \in Procs :
        /\ pr[p].pc = "done" /\ pr[p].op = "update_user" /\ pr[p].status = 200
        /\ DOMAIN pr[p].arg.update_data = {"email", "is_active"}
        /\ pr[p].body.email = pr[p].arg.update_data["email"]
        /\ pr[p].body.full_name \in FullNames
        /\ pr[p].body.updated_at > pr[p].body.created_at
        /\ Cardinality(users) = 2

\* C15: the commit of a successful Register adds one row and changes no
\* other: the row has an identifier no row had, the submitted email, username
\* and display name, is active whatever the request said, has no last_login,
\* has created_at equal to updated_at, and holds a hash that names a scheme
\* of the context and that verifies for the submitted password and not for
\* another; the response shows that row without the hash.
C15_RegisterCreates ==
    [][\A p \in Procs :
          /\ (Runs(p, "create_commit") /\ pr'[p].pc = "create_refresh") =>
                \E r \in users' :
                    /\ r \notin users
                    /\ users' = users \cup {r}
                    /\ \A x \in users : x.id # r.id
                    /\ r.id = pr'[p].loc.id
                    /\ r.email = pr[p].arg.email
                    /\ r.username = pr[p].arg.username
                    /\ r.full_name = pr[p].arg.full_name
                    /\ r.is_active
                    /\ r.last_login = NoneT
                    /\ r.created_at = r.updated_at
                    /\ r.created_at <= clock
                    /\ r.password_hash.scheme \in {Schemes[i] : i \in DOMAIN Schemes}
                    /\ verify_password(pr[p].arg.password, r.password_hash)
                    /\ ~verify_password("wrong", r.password_hash)
          /\ (Runs(p, "create_refresh") /\ Answered(p, 200)) =>
                /\ users' = users
                /\ "password_hash" \notin DOMAIN pr'[p].body
                /\ \E r \in users : /\ r.id = pr[p].loc.id
                                    /\ pr'[p].body = to_user_response(r)]_vars

\* a Register that asked for an inactive account has succeeded next to an
\* existing account, and the new account is active
C15_Witness ==
    \E p \in Procs :
        /\ pr[p].pc = "done" /\ pr[p].op = "create_user" /\ pr[p].status = 200
        /\ ~pr[p].arg.is_active
        /\ pr[p].body.is_active
        /\ Cardinality(users) = 2
        /\ \E r \in users : str(r.id) = pr[p].body.id /\ r.is_active

\* the accounts a filter lets through
Passing(rows, is_active) ==
    {r \in rows : is_active = NoFilter \/ is_active = Filter(r.is_active)}
Min(a, b) == IF a < b THEN a ELSE b
Max(a, b) == IF a > b THEN a ELSE b

\* C18: List returns as total the number of accounts that pass the filter,
\* whatever skip and limit are, and returns min(limit, max(0, total - skip))
\* distinct accounts that pass the filter, newest first, with at most skip of
\* the passing accounts newer than the first returned, no passing account
\* left out between the first and the last returned, and as many as skip
\* newer than or as new as the first; List changes nothing in the table.
C18_ListPage ==
    [][\A p \in Procs :
          /\ Takes(p, "list_users") => users' = users
          /\ Runs(p, "list_page") =>
                LET a == pr[p].arg
                    M == Passing(users, a.is_active)
                    page == pr'[p].body.users
                    E == {x \in M : \E i \in DOMAIN page : page[i] = to_user_response(x)}
                    n == Cardinality(DOMAIN page)
                IN  /\ users' = users
                    /\ Answered(p, 200)
                    /\ pr'[p].body.total = Cardinality(M)
                    /\ n = Min(a.limit, Max(0, Cardinality(M) - a.skip))
                    /\ DOMAIN page = 1..n
                    /\ Cardinality(E) = n
                    /\ \A i, j \in DOMAIN page : i < j => page[i].created_at >= page[j].created_at
                    /\ n > 0 =>
                          /\ \A x \in M \ E : \/ x.created_at >= page[1].created_at
                                               \/ x.created_at <= page[n].created_at
                          /\ Cardinality({x \in M \ E : x.created_at > page[1].created_at})
                                 <= a.skip
                          /\ Cardinality({x \in M \ E : x.created_at >= page[1].created_at})
                                 + Cardinality({x \in E : x.created_at > page[n].created_at})
                                 >= a.skip]_vars

\* List of the active accounts with skip 1 and limit 1 has returned total 2
\* and the older of the two, while an inactive account is in the table
C18_Witness ==
    \E p \in Procs :
        /\ pr[p].pc = "done" /\ pr[p].op = "list_users" /\ pr[p].status = 200
        /\ pr[p].arg.skip = 1 /\ pr[p].arg.limit = 1 /\ pr[p].arg.is_active = Filter(TRUE)
        /\ pr[p].body.total = 2
        /\ DOMAIN pr[p].body.users = {1}
        /\ \E r \in users : r.is_active /\ r.created_at > pr[p].body.users[1].created_at
        /\ \E r \in users : ~r.is_active

\* C20: Delete of an identifier that no account has answers 404 and leaves
\* the table unchanged; Delete of an existing account removes its row in the
\* commit and changes no other row; an identifier that is not in the table
\* is never given to a row again, and Get of it answers 404; and a Register
\* with an email and a username that no row has, as after the Delete of
\* their owner, is not turned down and inserts its row.
C20_DeleteRemoves ==
    [][/\ \A r \in users' : r \in users \/ r.id \in {x.id : x \in users} \/ r.id = nextId
       /\ nextId' >= nextId
       /\ \A r \in users' : r.id < nextId'
       /\ \A p \in Procs :
             /\ (Takes(p, "delete_user") /\ UUIDParses(pr'[p].arg.user_id)) =>
                   /\ users' = users
                   /\ IF \E r \in users : str(r.id) = pr'[p].arg.user_id
                      THEN pr'[p].pc = "delete_commit"
                      ELSE Answered(p, 404)
             /\ Runs(p, "delete_commit") =>
                   /\ Answered(p, 200)
                   /\ \E r \in users : /\ str(r.id) = pr[p].arg.user_id
                                       /\ users' = users \ {r}
             /\ (/\ Takes(p, "get_user") /\ UUIDParses(pr'[p].arg.user_id)
                 /\ \A r \in users : str(r.id) # pr'[p].arg.user_id)
                => Answered(p, 404)
             /\ (/\ Takes(p, "create_user")
                 /\ \A r \in users : /\ r.email # pr'[p].arg.email
                                     /\ r.username # pr'[p].arg.username)
                => pr'[p].pc = "create_commit"
             /\ Runs(p, "create_commit") => pr'[p].pc = "create_refresh"]_vars

\* Get has answered 404 for the identifier of an account that was created
\* and deleted, while the other account is still in the table
C20_Witness ==
    \E p \in Procs :
        /\ pr[p].pc = "done" /\ pr[p].op = "get_user" /\ pr[p].status = 404
        /\ UUIDParses(pr[p].arg.user_id)
        /\ UUID(pr[p].arg.user_id) < nextId
        /\ Cardinality(users) = 1

(* ======================== properties of the hasher ==================== *)
\* C17: the hash get_password_hash returns for a password P, of any length,
\* is the same with either bcrypt library, and verify_password returns true
\* against it for P and false for every other password, also for one that
\* shares its first 72 bytes with P.
C17_HashRoundTrip ==
    \A p \in Procs :
        (pr[p].op = "get_password_hash" /\ pr[p].arg.scheme = DefaultScheme) =>
            /\ pr[p].pc = "hashed" => pr[p].body = get_password_hash(pr[p].arg.password)
            /\ pr[p].pc = "done" =>
                  /\ pr[p].body.ok \in BOOLEAN
                  /\ pr[p].body.ok <=> pr[p].loc.plain_password = pr[p].arg.password

\* a password of 73 bytes was hashed and the other password with the same
\* first 72 bytes was turned down
C17_Witness ==
    \E p \in Procs :
        /\ pr[p].pc = "done" /\ pr[p].op = "get_password_hash"
        /\ pr[p].arg.scheme = DefaultScheme
        /\ pr[p].arg.password \in LongPasswords
        /\ pr[p].loc.plain_password \in LongPasswords \ {pr[p].arg.password}
        /\ ~pr[p].body.ok

====
